---- MODULE Spec2Model ----
(***************************************************************************)
(* Model of shared/auth/kratos.go: the Kratos client (ValidateSession,     *)
(* GetUser, UpdateUser, DeleteUser, isEmailVerified), the trait projector  *)
(* getStringFromTraits, the credential extractor extractSessionToken and   *)
(* SessionMiddleware with the context accessors.                           *)
(*                                                                         *)
(* Strings that the code takes apart (header values, tokens) are sequences *)
(* of one-character strings; all other strings are plain strings.          *)
(* A nil error is the empty string.                                        *)
(***************************************************************************)
EXTENDS Integers, Sequences, FiniteSets, TLC

\* Number of concurrently served requests / concurrent callers of the client.
NumProcs == 2

Procs == 1..NumProcs

\* net/http status codes the code compares against.
StatusOK == 200
StatusNoContent == 204
StatusUnauthorized == 401

----------------------------------------------------------------------------
(* Strings as character sequences: strings.HasPrefix, strings.TrimPrefix.  *)

HasPrefix(s, prefix) ==
    /\ Len(s) >= Len(prefix)
    /\ SubSeq(s, 1, Len(prefix)) = prefix

TrimPrefix(s, prefix) ==
    IF HasPrefix(s, prefix) THEN SubSeq(s, Len(prefix) + 1, Len(s)) ELSE s

Bearer == <<"B", "e", "a", "r", "e", "r", " ">>

TokA == <<"a">>
TokB == <<"b">>
TokC == <<"c">>

----------------------------------------------------------------------------
(* Requests: the two headers (absent = empty, as Header.Get reports it)    *)
(* and the ory_kratos_session cookie (r.Cookie fails when it is absent).   *)

NoCookie == [present |-> FALSE, value |-> <<>>]

Cookie(v) == [present |-> TRUE, value |-> v]

Request(a, x, c) == [auth |-> a, xtoken |-> x, cookie |-> c]

\* extractSessionToken with the X-Session-Token header tried first.
extractSessionTokenCustomFirst(r) ==
    IF r.xtoken # <<>> THEN r.xtoken
    ELSE IF r.auth # <<>> /\ HasPrefix(r.auth, Bearer) THEN TrimPrefix(r.auth, Bearer)
    ELSE IF r.cookie.present THEN r.cookie.value
    ELSE <<>>

\* extractSessionToken without the cookie transport.
extractSessionTokenNoCookie(r) ==
    IF r.auth # <<>> /\ HasPrefix(r.auth, Bearer) THEN TrimPrefix(r.auth, Bearer)
    ELSE IF r.xtoken # <<>> THEN r.xtoken
    ELSE <<>>

\* extractSessionToken matching the prefix without regard to case.
extractSessionTokenAnyCase(r) ==
    IF r.auth # <<>>
       /\ (HasPrefix(r.auth, Bearer)
             \/ HasPrefix(r.auth, <<"b", "e", "a", "r", "e", "r", " ">>))
    THEN SubSeq(r.auth, Len(Bearer) + 1, Len(r.auth))
    ELSE IF r.xtoken # <<>> THEN r.xtoken
    ELSE IF r.cookie.present THEN r.cookie.value
    ELSE <<>>

extractSessionToken(r) ==
    IF r.auth # <<>> /\ HasPrefix(r.auth, Bearer) THEN TrimPrefix(r.auth, Bearer)
    ELSE IF r.xtoken # <<>> THEN r.xtoken
    ELSE IF r.cookie.present THEN r.cookie.value
    ELSE <<>>

----------------------------------------------------------------------------
(* Trait bags: interface{} holding nil, a map[string]interface{} or some   *)
(* other JSON value; a map value is a string or something else.            *)

NilTraits == [kind |-> "nil"]

OtherTraits == [kind |-> "array"]

MapTraits(m) == [kind |-> "map", m |-> m]

StrVal(s) == [t |-> "string", v |-> s]

NumVal(s) == [t |-> "number", v |-> s]

\* A JSON null held under a key.
NullVal == [t |-> "null", v |-> "null"]

\* getStringFromTraits without the string type assertion on the value.
getStringFromTraitsAnyValue(traits, key) ==
    IF traits.kind = "nil" THEN ""
    ELSE IF traits.kind = "map" /\ key \in DOMAIN traits.m THEN traits.m[key].v
    ELSE ""

getStringFromTraits(traits, key) ==
    IF traits.kind = "nil" THEN ""
    ELSE IF traits.kind = "map" /\ key \in DOMAIN traits.m /\ traits.m[key].t = "string"
         THEN traits.m[key].v
    ELSE ""

----------------------------------------------------------------------------
(* The remote identity service.  store is its identity table; the session  *)
(* table is fixed: token "a" belongs to u1, "b" to u2 and "c" is a live    *)
(* session whose payload carries no identity record.                       *)

UserIDs == {"u1", "u2"}

Sessions == (TokA :> "u1") @@ (TokB :> "u2") @@ (TokC :> "")

Addr(via, verified) == [via |-> via, verified |-> verified]

RAddr(via) == [via |-> via]

BagEmailOnly == MapTraits([k \in {"email"} |-> StrVal("a@b.com")])

BagFull ==
    MapTraits([k \in {"email", "username", "first_name", "last_name", "phone",
                      "subscription_plan", "avatar"} |-> StrVal(k)])

BagMixed ==
    MapTraits(("email" :> StrVal("c@d.com")) @@ ("phone" :> NumVal("7")))

\* Zero value of client.Identity: what the nil-safe getters report.
NoIdentity ==
    [id |-> "", traits |-> NilTraits, createdAt |-> "", updatedAt |-> "",
     verifiable |-> <<>>, recovery |-> <<>>]

\* u1 has no verifiable address and, in one of the initial tables, an email
\* recovery address; u2 has a verified email address.
InitStore(u1Recovery) ==
    ("u1" :> [exists |-> TRUE,
              identity |-> [id |-> "u1", traits |-> BagEmailOnly,
                            createdAt |-> "t0", updatedAt |-> "t0",
                            verifiable |-> <<>>, recovery |-> u1Recovery]])
 @@ ("u2" :> [exists |-> TRUE,
              identity |-> [id |-> "u2", traits |-> BagFull,
                            createdAt |-> "t0", updatedAt |-> "t0",
                            verifiable |-> <<Addr("email", TRUE)>>,
                            recovery |-> <<>>]])

InitStores == {InitStore(<<>>), InitStore(<<RAddr("email")>>)}

Exists(st, id) == id \in DOMAIN st /\ st[id].exists

SessionResp(e, s, a, i) == [err |-> e, status |-> s, active |-> a, identity |-> i]

\* FrontendAPI.ToSession(ctx).XSessionToken(tok).Execute(): every answer the
\* remote service and the generated client can give for tok.
ToSession(tok, st) ==
    { SessionResp(TRUE, 0, FALSE, NoIdentity),
      SessionResp(TRUE, StatusOK, TRUE, NoIdentity),
      SessionResp(FALSE, StatusUnauthorized, FALSE, NoIdentity),
      SessionResp(FALSE, StatusUnauthorized, TRUE, NoIdentity),
      SessionResp(FALSE, StatusOK, FALSE, NoIdentity) }
    \cup
    (IF tok \notin DOMAIN Sessions THEN {}
     ELSE IF Sessions[tok] = "" THEN {SessionResp(FALSE, StatusOK, TRUE, NoIdentity)}
     ELSE IF Exists(st, Sessions[tok])
          THEN {SessionResp(FALSE, StatusOK, TRUE, st[Sessions[tok]].identity)}
     ELSE {})

IdentityResp(e, s, i) == [err |-> e, status |-> s, identity |-> i]

\* IdentityAPI.GetIdentity(ctx, id).Execute()
GetIdentity(id, st) ==
    { IdentityResp(TRUE, 0, NoIdentity), IdentityResp(FALSE, 404, NoIdentity) }
    \cup
    (IF Exists(st, id) THEN {IdentityResp(FALSE, StatusOK, st[id].identity)} ELSE {})

----------------------------------------------------------------------------
(* KratosUser and the two places that build one.                           *)

NilUser == [nil |-> TRUE]

ZeroUser ==
    [nil |-> FALSE, ID |-> "", Email |-> "", Username |-> "", FirstName |-> "",
     LastName |-> "", Phone |-> "", SubscriptionPlan |-> "", Avatar |-> "",
     EmailVerified |-> FALSE, Active |-> FALSE, CreatedAt |-> "", UpdatedAt |-> "",
     Traits |-> NilTraits]

ProjectTraits(u, traits) ==
    IF traits.kind # "nil"
    THEN [u EXCEPT !.Traits = traits,
                   !.Email = getStringFromTraits(traits, "email"),
                   !.Username = getStringFromTraits(traits, "username"),
                   !.FirstName = getStringFromTraits(traits, "first_name"),
                   !.LastName = getStringFromTraits(traits, "last_name"),
                   !.Phone = getStringFromTraits(traits, "phone"),
                   !.SubscriptionPlan = getStringFromTraits(traits, "subscription_plan"),
                   !.Avatar = getStringFromTraits(traits, "avatar")]
    ELSE u

\* NewUserFromSession leaving Active at its zero value.
NewUserFromSessionNoActive(resp) ==
    ProjectTraits([ZeroUser EXCEPT !.ID = resp.identity.id,
                                   !.CreatedAt = resp.identity.createdAt,
                                   !.UpdatedAt = resp.identity.updatedAt],
                  resp.identity.traits)

NewUserFromSession(resp) ==
    ProjectTraits([ZeroUser EXCEPT !.ID = resp.identity.id,
                                   !.Active = resp.active,
                                   !.CreatedAt = resp.identity.createdAt,
                                   !.UpdatedAt = resp.identity.updatedAt],
                  resp.identity.traits)

NewUserFromIdentity(identity) ==
    ProjectTraits([ZeroUser EXCEPT !.ID = identity.id,
                                   !.CreatedAt = identity.createdAt,
                                   !.UpdatedAt = identity.updatedAt],
                  identity.traits)

\* ValidateSession's checks of the introspection answer without the active check.
SessionErrorNoActiveCheck(resp) ==
    IF resp.err THEN "session validation failed"
    ELSE IF resp.status # StatusOK THEN "invalid session: status"
    ELSE ""

\* ValidateSession's checks of the introspection answer without the status check.
SessionErrorNoStatusCheck(resp) ==
    IF resp.err THEN "session validation failed"
    ELSE IF ~resp.active THEN "session is not active"
    ELSE ""

\* ValidateSession's checks of the introspection answer; "" is no error.
SessionError(resp) ==
    IF resp.err THEN "session validation failed"
    ELSE IF resp.status # StatusOK THEN "invalid session: status"
    ELSE IF ~resp.active THEN "session is not active"
    ELSE ""

\* GetUser's checks of the identity answer; "" is no error.
IdentityError(resp) ==
    IF resp.err THEN "failed to get user"
    ELSE IF resp.status # StatusOK THEN "user not found: status"
    ELSE ""

HasVerifiedEmail(addresses) ==
    \E i \in 1..Len(addresses) :
        addresses[i].via = "email" /\ addresses[i].verified

HasEmail(addresses) ==
    \E i \in 1..Len(addresses) : addresses[i].via = "email"

\* isEmailVerified reporting a failed lookup as verified.
isEmailVerifiedFailOpen(resp) ==
    IF resp.err \/ resp.status # StatusOK THEN TRUE
    ELSE IF Len(resp.identity.verifiable) > 0 /\ HasVerifiedEmail(resp.identity.verifiable)
         THEN TRUE
    ELSE IF Len(resp.identity.recovery) > 0 /\ HasEmail(resp.identity.recovery)
         THEN TRUE
    ELSE FALSE

\* isEmailVerified looking at the first verifiable address only.
isEmailVerifiedFirstOnly(resp) ==
    IF resp.err \/ resp.status # StatusOK THEN FALSE
    ELSE IF Len(resp.identity.verifiable) > 0
            /\ HasVerifiedEmail(SubSeq(resp.identity.verifiable, 1, 1))
         THEN TRUE
    ELSE IF Len(resp.identity.recovery) > 0 /\ HasEmail(resp.identity.recovery)
         THEN TRUE
    ELSE FALSE

\* isEmailVerified without the recovery-address tier.
isEmailVerifiedNoFallback(resp) ==
    IF resp.err \/ resp.status # StatusOK THEN FALSE
    ELSE IF Len(resp.identity.verifiable) > 0 /\ HasVerifiedEmail(resp.identity.verifiable)
         THEN TRUE
    ELSE FALSE

\* isEmailVerified, as a function of the answer to its GetIdentity call.
isEmailVerified(resp) ==
    IF resp.err \/ resp.status # StatusOK THEN FALSE
    ELSE IF Len(resp.identity.verifiable) > 0 /\ HasVerifiedEmail(resp.identity.verifiable)
         THEN TRUE
    ELSE IF Len(resp.identity.recovery) > 0 /\ HasEmail(resp.identity.recovery)
         THEN TRUE
    ELSE FALSE

----------------------------------------------------------------------------
(* Request context and its accessors.                                      *)

\* The next handler handed the request's original context.
WithValueDropped(c, p, u) == c

\* A "user" value kept in one place for all requests.
WithValueShared(c, p, u) == [q \in DOMAIN c |-> u]

\* context.WithValue(r.Context(), "user", user) for the request of p.
WithValue(c, p, u) == [c EXCEPT ![p] = u]

\* A value of another type stored under the "user" key.
OtherValue == [nil |-> FALSE, type |-> "string"]

\* ctx.Value("user").(*KratosUser): c is the value under the key, NilUser
\* when there is none.
GetUserFromContext(c) ==
    IF c = NilUser \/ c = OtherValue
    THEN [user |-> NilUser, ok |-> FALSE]
    ELSE [user |-> c, ok |-> TRUE]

\* RequireUser without the check of ok.
RequireUserUnchecked(c) == [user |-> GetUserFromContext(c).user, err |-> ""]

RequireUser(c) ==
    IF ~GetUserFromContext(c).ok
    THEN [user |-> NilUser, err |-> "user not found in context"]
    ELSE [user |-> GetUserFromContext(c).user, err |-> ""]

----------------------------------------------------------------------------
(* State.  Per process p (one served request, or one caller of the client):*)
(*   pc       where p stands: "idle", "get" (UpdateUser about to re-read), *)
(*            "verify" (user built, isEmailVerified about to look up),     *)
(*            "handler" (next.ServeHTTP running), "done"                   *)
(*   op       the operation p runs                                         *)
(*   req      the inbound request (middleware)                             *)
(*   arg      userID and traits arguments (GetUser, UpdateUser, DeleteUser)*)
(*   token    the session token handed to ValidateSession                  *)
(*   session  the answer of ToSession                                      *)
(*   identity the answer of GetUser's GetIdentity                          *)
(*   lookup   the answer of isEmailVerified's GetIdentity                  *)
(*   user,err the user being built, then the operation's return values     *)
(*   w        the response written by the middleware                       *)
(*   ctx      the "user" value of the context handed to the next handler   *)
(*   seen     what RequireUser gave the next handler                       *)
(*   hist     remote calls issued, and how often p bound and served        *)
(* store is the remote identity table; fnIn, fnOut are the argument and    *)
(* result of a helper function applied on its own.                         *)

VARIABLES pc, op, req, arg, token, session, identity, lookup, user, err, w,
          ctx, seen, hist, store, fnIn, fnOut

vars == <<pc, op, req, arg, token, session, identity, lookup, user, err, w,
          ctx, seen, hist, store, fnIn, fnOut>>

NoRequest == Request(<<>>, <<>>, NoCookie)

NoArg == [userID |-> "", traits |-> NilTraits]

NoSession == SessionResp(FALSE, 0, FALSE, NoIdentity)

NoIdentityResp == IdentityResp(FALSE, 0, NoIdentity)

NoResponse == [status |-> 0, body |-> ""]

NoSeen == [user |-> NilUser, err |-> ""]

NoHist == [calls |-> <<>>, binds |-> 0, served |-> 0]

Unset == [set |-> FALSE]

\* Nothing has been called yet.
Idle ==
    /\ pc = [p \in Procs |-> "idle"]
    /\ op = [p \in Procs |-> "none"]
    /\ req = [p \in Procs |-> NoRequest]
    /\ arg = [p \in Procs |-> NoArg]
    /\ token = [p \in Procs |-> <<>>]
    /\ session = [p \in Procs |-> NoSession]
    /\ identity = [p \in Procs |-> NoIdentityResp]
    /\ lookup = [p \in Procs |-> NoIdentityResp]
    /\ user = [p \in Procs |-> NilUser]
    /\ err = [p \in Procs |-> ""]
    /\ w = [p \in Procs |-> NoResponse]
    /\ ctx = [p \in Procs |-> NilUser]
    /\ seen = [p \in Procs |-> NoSeen]
    /\ hist = [p \in Procs |-> NoHist]

Init ==
    /\ Idle
    /\ store \in InitStores
    /\ fnIn = Unset
    /\ fnOut = Unset

Called(p, name) == [hist EXCEPT ![p].calls = Append(@, name)]

----------------------------------------------------------------------------
(* ValidateSession up to the return of ToSession and the building of the   *)
(* user (lines 53-93); pc' is "verify" when the user was built.            *)

ValidateSessionStart(p, tok) ==
    /\ token' = [token EXCEPT ![p] = tok]
    /\ IF tok = <<>>
       THEN /\ err' = [err EXCEPT ![p] = "session token is required"]
            /\ pc' = [pc EXCEPT ![p] = "done"]
            /\ UNCHANGED <<session, user, hist>>
       ELSE \E resp \in ToSession(tok, store) :
            /\ session' = [session EXCEPT ![p] = resp]
            /\ hist' = Called(p, "ToSession")
            /\ err' = [err EXCEPT ![p] = SessionError(resp)]
            /\ IF SessionError(resp) # ""
               THEN /\ pc' = [pc EXCEPT ![p] = "done"]
                    /\ UNCHANGED user
               ELSE /\ pc' = [pc EXCEPT ![p] = "verify"]
                    /\ user' = [user EXCEPT ![p] = NewUserFromSession(resp)]

\* The requests served: one per transport, one without a credential, one
\* with a bare "Bearer " and a custom header, one with an empty cookie.
Requests ==
    { NoRequest,
      Request(Bearer \o TokA, <<>>, NoCookie),
      Request(<<>>, TokB, NoCookie),
      Request(<<>>, <<>>, Cookie(TokC)),
      Request(Bearer, TokB, NoCookie),
      Request(<<>>, <<>>, Cookie(<<>>)) }

\* http.Error(w, "Session token required", http.StatusUnauthorized)
TokenRequired == [status |-> StatusUnauthorized, body |-> "Session token required"]

\* The answer to a failed validation carrying the error's text.
InvalidSessionWithCause(e) == [status |-> StatusUnauthorized, body |-> e]

\* http.Error(w, "Invalid session", http.StatusUnauthorized), written when
\* ValidateSession returned the error e.
InvalidSession(e) == [status |-> StatusUnauthorized, body |-> "Invalid session"]

\* SessionMiddleware's handler from its entry to the return of ToSession,
\* serving one of the requests R.
SessionMiddlewareOn(p, R) ==
    /\ pc[p] = "idle"
    /\ \E r \in R :
        /\ op' = [op EXCEPT ![p] = "middleware"]
        /\ req' = [req EXCEPT ![p] = r]
        /\ IF extractSessionToken(r) = <<>>
           THEN /\ w' = [w EXCEPT ![p] = TokenRequired]
                /\ pc' = [pc EXCEPT ![p] = "done"]
                /\ UNCHANGED <<token, session, user, err, hist>>
           ELSE /\ ValidateSessionStart(p, extractSessionToken(r))
                /\ w' = [w EXCEPT ![p] =
                            IF err'[p] # "" THEN InvalidSession(err'[p]) ELSE @]
    /\ UNCHANGED <<arg, identity, lookup, ctx, seen, store, fnIn, fnOut>>

SessionMiddleware(p) == SessionMiddlewareOn(p, Requests)

\* Verify with a failed lookup reported as an error of the operation.
VerifyStrict(p) ==
    /\ pc[p] = "verify"
    /\ \E resp \in GetIdentity(user[p].ID, store) :
        /\ lookup' = [lookup EXCEPT ![p] = resp]
        /\ IF resp.err \/ resp.status # StatusOK
           THEN /\ user' = [user EXCEPT ![p] = NilUser]
                /\ err' = [err EXCEPT ![p] = "email verification failed"]
                /\ hist' = Called(p, "GetIdentity")
                /\ pc' = [pc EXCEPT ![p] = "done"]
                /\ w' = [w EXCEPT ![p] =
                            IF op[p] = "middleware"
                            THEN [status |-> StatusUnauthorized, body |-> "Invalid session"]
                            ELSE @]
                /\ UNCHANGED ctx
           ELSE /\ user' = [user EXCEPT ![p].EmailVerified = isEmailVerified(resp)]
                /\ IF op[p] = "middleware"
                   THEN /\ ctx' = WithValue(ctx, p, user'[p])
                        /\ hist' = [hist EXCEPT ![p].calls = Append(@, "GetIdentity"),
                                                ![p].binds = @ + 1,
                                                ![p].served = @ + 1]
                        /\ pc' = [pc EXCEPT ![p] = "handler"]
                   ELSE /\ hist' = Called(p, "GetIdentity")
                        /\ pc' = [pc EXCEPT ![p] = "done"]
                        /\ UNCHANGED ctx
                /\ UNCHANGED <<err, w>>
    /\ UNCHANGED <<op, req, arg, token, session, identity, seen, store, fnIn, fnOut>>

\* isEmailVerified's lookup and the rest of ValidateSession / GetUser; in
\* the middleware also the binding and the call of the next handler.
Verify(p) ==
    /\ pc[p] = "verify"
    /\ \E resp \in GetIdentity(user[p].ID, store) :
        /\ lookup' = [lookup EXCEPT ![p] = resp]
        /\ user' = [user EXCEPT ![p].EmailVerified = isEmailVerified(resp)]
    /\ IF op[p] = "middleware"
       THEN /\ ctx' = WithValue(ctx, p, user'[p])
            /\ hist' = [hist EXCEPT ![p].calls = Append(@, "GetIdentity"),
                                    ![p].binds = @ + 1,
                                    ![p].served = @ + 1]
            /\ pc' = [pc EXCEPT ![p] = "handler"]
       ELSE /\ hist' = Called(p, "GetIdentity")
            /\ pc' = [pc EXCEPT ![p] = "done"]
            /\ UNCHANGED ctx
    /\ UNCHANGED <<op, req, arg, token, session, identity, err, w, seen, store,
                   fnIn, fnOut>>

\* The next handler, reading its principal.
Handler(p) ==
    /\ pc[p] = "handler"
    /\ seen' = [seen EXCEPT ![p] = RequireUser(ctx[p])]
    /\ pc' = [pc EXCEPT ![p] = "done"]
    /\ UNCHANGED <<op, req, arg, token, session, identity, lookup, user, err, w,
                   ctx, hist, store, fnIn, fnOut>>

Next == \E p \in Procs : SessionMiddleware(p) \/ Verify(p) \/ Handler(p)

Spec == Init /\ [][Next]_vars

----------------------------------------------------------------------------
(* The client's operations called directly.                                *)

ClientTokens == {<<>>, TokA, TokC}

ValidateSession(p) ==
    /\ pc[p] = "idle"
    /\ op' = [op EXCEPT ![p] = "ValidateSession"]
    /\ \E tok \in ClientTokens : ValidateSessionStart(p, tok)
    /\ UNCHANGED <<req, arg, identity, lookup, w, ctx, seen, store, fnIn, fnOut>>

\* GetUser up to the return of GetIdentity and the building of the user
\* (lines 102-130); pc' is "verify" when the user was built.
GetUserStart(p, id) ==
    \E resp \in GetIdentity(id, store) :
        /\ identity' = [identity EXCEPT ![p] = resp]
        /\ hist' = Called(p, "GetIdentity")
        /\ err' = [err EXCEPT ![p] = IdentityError(resp)]
        /\ IF IdentityError(resp) # ""
           THEN /\ pc' = [pc EXCEPT ![p] = "done"]
                /\ UNCHANGED user
           ELSE /\ pc' = [pc EXCEPT ![p] = "verify"]
                /\ user' = [user EXCEPT ![p] = NewUserFromIdentity(resp.identity)]

GetUser(p) ==
    /\ pc[p] = "idle"
    /\ op' = [op EXCEPT ![p] = "GetUser"]
    /\ \E id \in UserIDs :
        /\ arg' = [arg EXCEPT ![p] = [userID |-> id, traits |-> NilTraits]]
        /\ GetUserStart(p, id)
    /\ UNCHANGED <<req, token, session, lookup, w, ctx, seen, store, fnIn, fnOut>>

\* The trait bags callers pass to UpdateUser.
UpdateBags == {BagFull, BagMixed}

\* IdentityAPI.UpdateIdentity(ctx, id).UpdateIdentityBody(traits).Execute():
\* the answers, each with the identity table it leaves behind.
UpdateIdentity(id, traits, st) ==
    { [resp |-> IdentityResp(TRUE, 0, NoIdentity), store |-> st],
      [resp |-> IdentityResp(FALSE, 400, NoIdentity), store |-> st] }
    \cup
    (IF Exists(st, id)
     THEN LET new == [st EXCEPT ![id].identity.traits = traits,
                                ![id].identity.updatedAt = "t1"]
          IN  {[resp |-> IdentityResp(FALSE, StatusOK, new[id].identity), store |-> new]}
     ELSE {})

\* UpdateUser's checks of the update answer; "" is no error.
UpdateError(resp) ==
    IF resp.err THEN "failed to update user"
    ELSE IF resp.status # StatusOK THEN "failed to update user: status"
    ELSE ""

\* UpdateUser up to the return of UpdateIdentity (lines 137-152).
UpdateUser(p) ==
    /\ pc[p] = "idle"
    /\ op' = [op EXCEPT ![p] = "UpdateUser"]
    /\ \E id \in UserIDs, traits \in UpdateBags :
        /\ arg' = [arg EXCEPT ![p] = [userID |-> id, traits |-> traits]]
        /\ \E out \in UpdateIdentity(id, traits, store) :
            /\ store' = out.store
            /\ identity' = [identity EXCEPT ![p] = out.resp]
            /\ err' = [err EXCEPT ![p] = UpdateError(out.resp)]
            /\ pc' = [pc EXCEPT ![p] = IF UpdateError(out.resp) # "" THEN "done" ELSE "get"]
    /\ hist' = Called(p, "UpdateIdentity")
    /\ UNCHANGED <<req, token, session, lookup, user, w, ctx, seen, fnIn, fnOut>>

\* UpdateUser's closing GetUser(ctx, identity.GetId()) (line 154).
UpdateUserGet(p) ==
    /\ pc[p] = "get"
    /\ GetUserStart(p, identity[p].identity.id)
    /\ UNCHANGED <<op, req, arg, token, session, lookup, w, ctx, seen, store,
                   fnIn, fnOut>>

\* IdentityAPI.DeleteIdentity(ctx, id).Execute()
DeleteIdentity(id, st) ==
    { [resp |-> IdentityResp(TRUE, 0, NoIdentity), store |-> st],
      [resp |-> IdentityResp(FALSE, 404, NoIdentity), store |-> st] }
    \cup
    (IF Exists(st, id)
     THEN {[resp |-> IdentityResp(FALSE, StatusNoContent, NoIdentity),
            store |-> [st EXCEPT ![id].exists = FALSE]]}
     ELSE {})

DeleteError(resp) ==
    IF resp.err THEN "failed to delete user"
    ELSE IF resp.status # StatusNoContent THEN "failed to delete user: status"
    ELSE ""

DeleteUser(p) ==
    /\ pc[p] = "idle"
    /\ op' = [op EXCEPT ![p] = "DeleteUser"]
    /\ \E id \in UserIDs :
        /\ arg' = [arg EXCEPT ![p] = [userID |-> id, traits |-> NilTraits]]
        /\ \E out \in DeleteIdentity(id, store) :
            /\ store' = out.store
            /\ err' = [err EXCEPT ![p] = DeleteError(out.resp)]
    /\ pc' = [pc EXCEPT ![p] = "done"]
    /\ hist' = Called(p, "DeleteIdentity")
    /\ UNCHANGED <<req, token, session, identity, lookup, user, w, ctx, seen,
                   fnIn, fnOut>>

NextClient ==
    \E p \in Procs :
        \/ ValidateSession(p)
        \/ GetUser(p)
        \/ UpdateUser(p)
        \/ UpdateUserGet(p)
        \/ DeleteUser(p)
        \/ Verify(p)

SpecClient == Init /\ [][NextClient]_vars

----------------------------------------------------------------------------
(* extractSessionToken applied to every request built from short tokens.   *)

MaxTokLen == 1

RECURSIVE SeqsUpTo(_, _)
SeqsUpTo(S, n) ==
    IF n = 0 THEN {<<>>}
    ELSE LET shorter == SeqsUpTo(S, n - 1)
         IN  shorter \cup {Append(t, x) : t \in shorter, x \in S}

ExtractTokens == SeqsUpTo({"a", "b"}, MaxTokLen) \ {<<>>}

LowerBearer == <<"b", "e", "a", "r", "e", "r", " ">>

Basic == <<"B", "a", "s", "i", "c", " ">>

BearerNoSpace == <<"B", "e", "a", "r", "e", "r">>

AuthValues ==
    {<<>>, Bearer}
    \cup {pre \o t : pre \in {Bearer, LowerBearer, Basic, BearerNoSpace, <<>>},
                     t \in ExtractTokens}

ExtractInputs ==
    { Request(a, x, c) :
        a \in AuthValues,
        x \in {<<>>} \cup ExtractTokens,
        c \in {NoCookie, Cookie(<<>>)} \cup {Cookie(t) : t \in ExtractTokens} }

InitExtract ==
    /\ Idle
    /\ store = InitStore(<<>>)
    /\ fnIn \in ExtractInputs
    /\ fnOut = Unset

Result(v) == [set |-> TRUE, val |-> v]

ApplyExtract ==
    /\ fnOut = Unset
    /\ fnOut' = Result(extractSessionToken(fnIn))
    /\ UNCHANGED <<pc, op, req, arg, token, session, identity, lookup, user, err,
                   w, ctx, seen, hist, store, fnIn>>

SpecExtract == InitExtract /\ [][ApplyExtract]_vars

----------------------------------------------------------------------------
(* isEmailVerified applied to every answer of its identity lookup with     *)
(* short address lists.                                                    *)

MaxAddrs == 2

VerifiableAddrs == {Addr(via, v) : via \in {"email", "sms"}, v \in BOOLEAN}

RecoveryAddrs == {RAddr(via) : via \in {"email", "sms"}}

LookupInputs ==
    { IdentityResp(e, s, [NoIdentity EXCEPT !.id = "u1", !.verifiable = va,
                                            !.recovery = ra]) :
        e \in BOOLEAN, s \in {StatusOK, 404},
        va \in SeqsUpTo(VerifiableAddrs, MaxAddrs),
        ra \in SeqsUpTo(RecoveryAddrs, MaxAddrs) }

InitVerified ==
    /\ Idle
    /\ store = InitStore(<<>>)
    /\ fnIn \in LookupInputs
    /\ fnOut = Unset

ApplyVerified ==
    /\ fnOut = Unset
    /\ fnOut' = Result(isEmailVerified(fnIn))
    /\ UNCHANGED <<pc, op, req, arg, token, session, identity, lookup, user, err,
                   w, ctx, seen, hist, store, fnIn>>

SpecVerified == InitVerified /\ [][ApplyVerified]_vars

----------------------------------------------------------------------------
(* Properties.                                                             *)

\* p has received an answer from the session introspection.
Introspected(p) == hist[p].calls # <<>> /\ hist[p].calls[1] = "ToSession"

SessionOK(resp) == ~resp.err /\ resp.status = StatusOK /\ resp.active

LookupFailed(resp) == resp.err \/ resp.status # StatusOK

\* p's client operation has returned a user and a nil error.
Returned(p) ==
    /\ op[p] \in {"ValidateSession", "GetUser", "UpdateUser"}
    /\ pc[p] = "done"
    /\ err[p] = ""

\* C1: the middleware invokes the next handler only when a credential was
\* extracted and ValidateSession returned a user and no error, and the
\* context handed over then carries exactly that user; a request without a
\* credential or with a failed validation is answered 401, gets no principal
\* and never reaches the next handler.
C1_NextOnlyAfterValidation ==
    \A p \in Procs :
        op[p] = "middleware" =>
            /\ hist[p].served > 0 =>
                /\ extractSessionToken(req[p]) # <<>>
                /\ token[p] = extractSessionToken(req[p])
                /\ Introspected(p)
                /\ err[p] = ""
                /\ user[p] # NilUser
                /\ ctx[p] = user[p]
            /\ (pc[p] = "done" /\ (extractSessionToken(req[p]) = <<>> \/ err[p] # "")) =>
                /\ w[p].status = StatusUnauthorized
                /\ ctx[p] = NilUser
                /\ hist[p].binds = 0
                /\ hist[p].served = 0
                /\ seen[p] = NoSeen

C1_Witness ==
    \E p, q \in Procs :
        /\ op[p] = "middleware" /\ hist[p].served = 1 /\ ctx[p] # NilUser
        /\ op[q] = "middleware" /\ pc[q] = "done" /\ w[q].body = "Invalid session"

\* C2: a request with Authorization "Bearer X" and a non-empty
\* X-Session-Token yields X, whatever the cookie.
C2_BearerBeforeCustomHeader ==
    \A X \in SeqsUpTo({"a", "b"}, MaxTokLen) :
        (fnOut # Unset /\ fnIn.auth = Bearer \o X /\ fnIn.xtoken # <<>>) =>
            fnOut.val = X

C2_Witness ==
    /\ fnOut # Unset
    /\ fnIn = Request(Bearer \o <<"a">>, <<"b">>, Cookie(<<"b">>))
    /\ fnOut.val = <<"a">>

\* C3: an introspection answer with active = false, with any status, and any
\* answer with a status other than 200, makes ValidateSession return an
\* error and no user.
C3_InactiveOrNon200IsError ==
    \A p \in Procs :
        (Introspected(p) /\ (~session[p].active \/ session[p].status # StatusOK)) =>
            /\ err[p] # ""
            /\ user[p] = NilUser

C3_Witness ==
    \E p, q \in Procs :
        /\ op[p] = "ValidateSession"
        /\ session[p] = SessionResp(FALSE, StatusOK, FALSE, NoIdentity)
        /\ err[p] = "session is not active"
        /\ op[q] = "ValidateSession"
        /\ session[q] = SessionResp(FALSE, StatusUnauthorized, FALSE, NoIdentity)
        /\ err[q] # ""

\* C4: a user returned by ValidateSession, GetUser or UpdateUser whose
\* verification lookup failed (error or status other than 200) has
\* EmailVerified = false.
C4_FailedLookupNeverVerified ==
    \A p \in Procs :
        Returned(p) =>
            /\ user[p] # NilUser
            /\ LookupFailed(lookup[p]) => ~user[p].EmailVerified

C4_Witness ==
    \E p, q \in Procs :
        /\ Returned(p) /\ op[p] = "UpdateUser" /\ user[p].ID = "u2"
        /\ lookup[p].err /\ ~user[p].EmailVerified
        /\ Returned(q) /\ op[q] = "ValidateSession"
        /\ lookup[q] = IdentityResp(FALSE, 404, NoIdentity) /\ ~user[q].EmailVerified

\* C5: every user returned without error by ValidateSession, GetUser or
\* UpdateUser has a non-empty ID.
C5_ReturnedIDNonEmpty ==
    \A p \in Procs : Returned(p) => user[p].ID # ""

\* C6: ValidateSession returns either a user with a nil error or no user
\* with the error of the first failing step; a user exists only after a
\* successful introspection, and a returned user has been through every step.
C6_AllOrNothing ==
    \A p \in Procs :
        op[p] = "ValidateSession" =>
            /\ user[p] # NilUser =>
                /\ Introspected(p)
                /\ SessionOK(session[p])
                /\ err[p] = ""
            /\ pc[p] = "done" =>
                /\ (user[p] = NilUser) <=> (err[p] # "")
                /\ err[p] = IF token[p] = <<>> THEN "session token is required"
                            ELSE IF session[p].err THEN "session validation failed"
                            ELSE IF session[p].status # StatusOK THEN "invalid session: status"
                            ELSE IF ~session[p].active THEN "session is not active"
                            ELSE ""
                /\ user[p] # NilUser =>
                    /\ hist[p].calls = <<"ToSession", "GetIdentity">>
                    /\ user[p].ID = session[p].identity.id
                    /\ user[p].Active

C6_Witness ==
    \E p, q \in Procs :
        /\ op[p] = "ValidateSession" /\ pc[p] = "done"
        /\ user[p] # NilUser /\ err[p] = ""
        /\ op[q] = "ValidateSession" /\ pc[q] = "done"
        /\ user[q] = NilUser /\ err[q] = "invalid session: status"

\* C7: after an introspection answer without error, with status 200 and an
\* active session, the middleware reaches the next handler with a user and
\* no error whatever the verification lookup answered, and a failed lookup
\* leaves EmailVerified = false.
C7_LookupFailureDoesNotAbort ==
    \A p \in Procs :
        (op[p] = "middleware" /\ Introspected(p) /\ SessionOK(session[p])
            /\ pc[p] # "verify") =>
            /\ err[p] = ""
            /\ user[p] # NilUser
            /\ hist[p].served = 1
            /\ w[p] = NoResponse
            /\ LookupFailed(lookup[p]) => ~user[p].EmailVerified

C7_Witness ==
    \E p \in Procs :
        /\ op[p] = "middleware" /\ pc[p] = "done"
        /\ lookup[p].err
        /\ hist[p].served = 1
        /\ seen[p].user # NilUser
        /\ seen[p].user.ID = "u2"
        /\ ~seen[p].user.EmailVerified

\* C8: with a successful lookup and a verifiable address of channel email
\* with verified = true, isEmailVerified is true for every recovery list.
C8_VerifiedAddressSuffices ==
    (/\ fnOut # Unset
     /\ ~LookupFailed(fnIn)
     /\ \E i \in 1..Len(fnIn.identity.verifiable) :
            fnIn.identity.verifiable[i] = Addr("email", TRUE)) =>
        fnOut.val = TRUE

C8_Witness ==
    /\ fnOut # Unset
    /\ ~LookupFailed(fnIn)
    /\ fnIn.identity.verifiable = <<Addr("sms", TRUE), Addr("email", TRUE)>>
    /\ fnIn.identity.recovery = <<>>
    /\ fnOut.val = TRUE

\* C9: with a successful lookup and no verifiable address of channel email
\* with verified = true, isEmailVerified is true exactly when the recovery
\* list has an entry of channel email.
C9_RecoveryFallback ==
    (/\ fnOut # Unset
     /\ ~LookupFailed(fnIn)
     /\ \A i \in 1..Len(fnIn.identity.verifiable) :
            fnIn.identity.verifiable[i] # Addr("email", TRUE)) =>
        (fnOut.val <=> \E j \in 1..Len(fnIn.identity.recovery) :
                            fnIn.identity.recovery[j] = RAddr("email"))

C9_Witness ==
    /\ fnOut # Unset
    /\ ~LookupFailed(fnIn)
    /\ fnIn.identity.verifiable = <<Addr("email", FALSE)>>
    /\ fnIn.identity.recovery = <<RAddr("sms"), RAddr("email")>>
    /\ fnOut.val = TRUE

\* C10: whatever the interleaving of the requests, a request is bound at
\* most once, only after its own ValidateSession succeeded and before its
\* next handler runs, and the principal its handler reads is the user built
\* from its own credential.
C10_OwnPrincipalOnly ==
    \A p \in Procs :
        /\ hist[p].binds <= 1
        /\ hist[p].served <= hist[p].binds
        /\ hist[p].binds = 1 => ctx[p] # NilUser
        /\ pc[p] = "handler" => ctx[p] # NilUser
        /\ ctx[p] # NilUser =>
            /\ hist[p].binds = 1
            /\ err[p] = ""
            /\ SessionOK(session[p])
            /\ hist[p].calls = <<"ToSession", "GetIdentity">>
            /\ token[p] = extractSessionToken(req[p])
            /\ ctx[p] = user[p]
            /\ ctx[p].ID = Sessions[token[p]]
        /\ seen[p] # NoSeen =>
            /\ seen[p].err = ""
            /\ seen[p].user = user[p]
            /\ seen[p].user.ID = Sessions[token[p]]
        /\ (pc[p] = "done" /\ hist[p].served = 1) => seen[p].user # NilUser

C10_Witness ==
    \E p, q \in Procs :
        /\ pc[p] = "done" /\ seen[p].user # NilUser /\ seen[p].user.ID = "u1"
        /\ pc[q] = "handler" /\ ctx[q] # NilUser /\ ctx[q].ID = "u2"

\* p's request was refused by the middleware.
Refused(p) == op[p] = "middleware" /\ pc[p] = "done" /\ hist[p].served = 0

\* C11: every refused request is answered 401, and two refused requests
\* whose extracted credential is non-empty get the same status and body,
\* whether the introspection failed in transport, with a status other than
\* 200 or with an inactive session.
C11_FailuresLookAlike ==
    \A p, q \in Procs :
        Refused(p) =>
            /\ w[p].status = StatusUnauthorized
            /\ (Refused(q) /\ token[p] # <<>> /\ token[q] # <<>>) => w[p] = w[q]

C11_Witness ==
    \E p, q \in Procs :
        /\ Refused(p) /\ session[p].err /\ err[p] = "session validation failed"
        /\ Refused(q) /\ ~session[q].err /\ session[q].status = StatusOK
        /\ err[q] = "session is not active"
        /\ w[p] = w[q] /\ w[p].body = "Invalid session"

\* The recognized trait keys and the KratosUser field each one fills.
TraitKeys ==
    {"email", "username", "first_name", "last_name", "phone",
     "subscription_plan", "avatar"}

Field(u, key) ==
    CASE key = "email" -> u.Email
      [] key = "username" -> u.Username
      [] key = "first_name" -> u.FirstName
      [] key = "last_name" -> u.LastName
      [] key = "phone" -> u.Phone
      [] key = "subscription_plan" -> u.SubscriptionPlan
      [] key = "avatar" -> u.Avatar

\* q's UpdateUser or DeleteUser has changed identity id on the remote service.
ChangedBy(q, id) ==
    /\ arg[q].userID = id
    /\ \/ op[q] = "UpdateUser" /\ (pc[q] = "get" \/ Len(hist[q].calls) >= 2)
       \/ op[q] = "DeleteUser" /\ pc[q] = "done" /\ err[q] = ""

OnlyWriter(p) == \A q \in Procs \ {p} : ~ChangedBy(q, arg[p].userID)

\* C12 as stated: the user returned by UpdateUser's closing GetUser has, for
\* every recognized key of the input traits, a field equal to the input value.
C12_RoundTripExact ==
    \A p \in Procs :
        (Returned(p) /\ op[p] = "UpdateUser") =>
            \A k \in TraitKeys \cap DOMAIN arg[p].traits.m :
                StrVal(Field(user[p], k)) = arg[p].traits.m[k]

\* C12 amended: when no other UpdateUser or DeleteUser call changes the same
\* identity, each field equals the input value of its key if that value is a
\* string, and is empty if the key is missing or its value is not a string.
C12_RoundTripStrings ==
    \A p \in Procs :
        (Returned(p) /\ op[p] = "UpdateUser" /\ OnlyWriter(p)) =>
            \A k \in TraitKeys :
                Field(user[p], k) =
                    IF k \in DOMAIN arg[p].traits.m /\ arg[p].traits.m[k].t = "string"
                    THEN arg[p].traits.m[k].v
                    ELSE ""

C12_Witness ==
    \E p \in Procs :
        /\ Returned(p) /\ op[p] = "UpdateUser" /\ OnlyWriter(p)
        /\ arg[p].traits = BagMixed
        /\ user[p].Email = "c@d.com"
        /\ user[p].Phone = ""

\* The projection of a trait bag on a key, and the verification status an
\* identity lookup answer stands for, as the design states them.
Projected(traits, k) ==
    IF traits.kind = "map" /\ k \in DOMAIN traits.m /\ traits.m[k].t = "string"
    THEN traits.m[k].v
    ELSE ""

ExpectedVerified(resp) ==
    /\ ~LookupFailed(resp)
    /\ \/ \E i \in 1..Len(resp.identity.verifiable) :
            resp.identity.verifiable[i] = Addr("email", TRUE)
       \/ \E j \in 1..Len(resp.identity.recovery) :
            resp.identity.recovery[j] = RAddr("email")

\* C13: a user returned by ValidateSession has the id of the session's
\* identity, Active = true, every fixed field equal to the projection of the
\* session identity's traits, and EmailVerified equal to the outcome of the
\* verification lookup made for that id.
C13_UserMatchesSession ==
    \A p \in Procs :
        (Returned(p) /\ op[p] = "ValidateSession") =>
            /\ SessionOK(session[p])
            /\ user[p].ID = session[p].identity.id
            /\ user[p].Active = TRUE
            /\ \A k \in TraitKeys :
                Field(user[p], k) = Projected(session[p].identity.traits, k)
            /\ user[p].Traits = session[p].identity.traits
            /\ ~LookupFailed(lookup[p]) => lookup[p].identity.id = user[p].ID
            /\ user[p].EmailVerified = ExpectedVerified(lookup[p])

C13_Witness ==
    \E p \in Procs :
        /\ Returned(p) /\ op[p] = "ValidateSession"
        /\ session[p].identity.traits = BagEmailOnly
        /\ ~LookupFailed(lookup[p])
        /\ lookup[p].identity.verifiable = <<>>
        /\ lookup[p].identity.recovery = <<>>
        /\ user[p].ID = "u1"
        /\ user[p].Email = "a@b.com"
        /\ user[p].Username = ""
        /\ user[p].EmailVerified = FALSE
        /\ user[p].Active = TRUE

----------------------------------------------------------------------------
(* The middleware serving a single request, drawn from every request built *)
(* from short tokens, and a handler mounted without the middleware.        *)

\* The contexts a handler gets when the middleware did not run.
UnboundContexts == {NilUser, OtherValue}

\* No other request is being served.
Alone(p) == \A q \in Procs \ {p} : pc[q] = "idle"

ServeAny(p) == Alone(p) /\ SessionMiddlewareOn(p, ExtractInputs)

VerifyAlone(p) == Alone(p) /\ Verify(p)

HandlerAlone(p) == Alone(p) /\ Handler(p)

\* A handler reached without SessionMiddleware, calling RequireUser.
DirectHandler(p) ==
    /\ Alone(p)
    /\ pc[p] = "idle"
    /\ op' = [op EXCEPT ![p] = "handler"]
    /\ \E c \in UnboundContexts :
        /\ ctx' = [ctx EXCEPT ![p] = c]
        /\ seen' = [seen EXCEPT ![p] = RequireUser(c)]
    /\ pc' = [pc EXCEPT ![p] = "done"]
    /\ UNCHANGED <<req, arg, token, session, identity, lookup, user, err, w,
                   hist, store, fnIn, fnOut>>

NextSerial ==
    \E p \in Procs :
        \/ ServeAny(p)
        \/ VerifyAlone(p)
        \/ HandlerAlone(p)
        \/ DirectHandler(p)

SpecSerial == Init /\ [][NextSerial]_vars

\* The Authorization header starts with "Bearer ".
StartsWithBearer(r) ==
    \E X \in SeqsUpTo({"a", "b"}, MaxTokLen) : r.auth = Bearer \o X

NoTransport(r) ==
    /\ ~StartsWithBearer(r)
    /\ r.xtoken = <<>>
    /\ ~r.cookie.present

\* The transport that is selected carries an empty token, or there is none.
EmptyCredential(r) ==
    IF StartsWithBearer(r) THEN r.auth = Bearer
    ELSE /\ r.xtoken = <<>>
         /\ (~r.cookie.present \/ r.cookie.value = <<>>)

\* C14 as stated: the extractor gives the empty result, and the middleware
\* answers "Session token required", only for requests with no Bearer
\* Authorization header, no non-empty X-Session-Token and no cookie.
C14_AbsentOnlyWithoutTransport ==
    \A p \in Procs :
        (op[p] = "middleware" /\ pc[p] # "idle") =>
            /\ extractSessionToken(req[p]) = <<>> => NoTransport(req[p])
            /\ w[p].body = "Session token required" => NoTransport(req[p])

\* C14 amended: the extractor gives the empty result, and the middleware
\* answers "Session token required", exactly for the requests whose
\* Authorization header is "Bearer " with nothing after it, or does not
\* start with "Bearer " while the X-Session-Token is empty and the cookie is
\* absent or has an empty value.
C14_AbsentIffEmptyCredential ==
    \A p \in Procs :
        (op[p] = "middleware" /\ pc[p] # "idle") =>
            /\ extractSessionToken(req[p]) = <<>> <=> EmptyCredential(req[p])
            /\ w[p].body = "Session token required" <=> EmptyCredential(req[p])
            /\ EmptyCredential(req[p]) => w[p] = TokenRequired /\ hist[p].calls = <<>>

C14_Witness ==
    \E p \in Procs :
        /\ op[p] = "middleware" /\ pc[p] = "done"
        /\ req[p] = Request(Bearer, <<"b">>, Cookie(<<"a">>))
        /\ w[p] = TokenRequired

\* p's handler has run and called RequireUser.
HandlerRan(p) ==
    /\ pc[p] = "done"
    /\ \/ op[p] = "handler"
       \/ op[p] = "middleware" /\ hist[p].served = 1

\* C16: RequireUser gives an error, and no user, exactly when the context
\* holds no *KratosUser under the "user" key, and in a handler reached
\* through the middleware it gives the bound user and no error.
C16_RequireUser ==
    \A p \in Procs :
        HandlerRan(p) =>
            /\ seen[p].err # "" <=> ctx[p] \in UnboundContexts
            /\ seen[p].err # "" => seen[p].user = NilUser
            /\ op[p] = "middleware" =>
                /\ seen[p].err = ""
                /\ seen[p].user # NilUser
                /\ seen[p].user = user[p]
                /\ seen[p].user = ctx[p]

C16_Witness ==
    \E p \in Procs :
        /\ HandlerRan(p) /\ op[p] = "handler"
        /\ ctx[p] = NilUser
        /\ seen[p] = [user |-> NilUser, err |-> "user not found in context"]

\* What the transports after the Authorization header give.
AfterAuthorization(r) ==
    IF r.xtoken # <<>> THEN r.xtoken
    ELSE IF r.cookie.present THEN r.cookie.value
    ELSE <<>>

\* C15: when the Authorization header is absent or does not start with
\* "Bearer " in exactly that case, the result is the X-Session-Token if it is
\* non-empty, and otherwise the value of the cookie if there is one.
C15_FallThroughAuthorization ==
    (fnOut # Unset /\ ~StartsWithBearer(fnIn)) =>
        /\ fnIn.xtoken # <<>> => fnOut.val = fnIn.xtoken
        /\ (fnIn.xtoken = <<>> /\ fnIn.cookie.present) =>
               fnOut.val = fnIn.cookie.value
        /\ fnOut.val = AfterAuthorization(fnIn)

C15_Witness ==
    /\ fnOut # Unset
    /\ fnIn = Request(LowerBearer \o <<"a">>, <<>>, Cookie(<<"b">>))
    /\ fnOut.val = <<"b">>

\* C17: a request served by the middleware calls the identity service in the
\* order ToSession, GetIdentity, each at most once; nothing is called for an
\* empty credential; GetIdentity is called only after ToSession answered 200
\* with an active session and the user was built; and after a failure
\* nothing more is called.
C17_CallOrder ==
    \A p \in Procs :
        op[p] = "middleware" =>
            /\ hist[p].calls \in {<<>>, <<"ToSession">>,
                                  <<"ToSession", "GetIdentity">>}
            /\ hist[p].calls = <<>> <=> extractSessionToken(req[p]) = <<>>
            /\ Len(hist[p].calls) = 2 =>
                   /\ SessionOK(session[p])
                   /\ err[p] = ""
                   /\ user[p] # NilUser
                   /\ lookup[p] # NoIdentityResp
                   /\ pc[p] \in {"handler", "done"}
            /\ err[p] # "" =>
                   /\ hist[p].calls = <<"ToSession">>
                   /\ ~SessionOK(session[p])
                   /\ pc[p] = "done"
            /\ pc[p] = "verify" =>
                   /\ hist[p].calls = <<"ToSession">>
                   /\ SessionOK(session[p])
                   /\ user[p] # NilUser

C17_Witness ==
    \E p, q \in Procs :
        /\ op[p] = "middleware" /\ pc[p] = "done"
        /\ hist[p].calls = <<"ToSession", "GetIdentity">>
        /\ op[q] = "middleware" /\ pc[q] = "done"
        /\ err[q] # "" /\ hist[q].calls = <<"ToSession">>

----------------------------------------------------------------------------
(* getStringFromTraits applied to every small trait bag and every key.     *)

MaxBagKeys == 2

BagKeys == {"email", "username", "other"}

BagValues == {StrVal("x"), StrVal(""), NumVal("7"), NullVal}

TraitBags ==
    {NilTraits, OtherTraits}
    \cup UNION { {MapTraits(m) : m \in [K -> BagValues]} :
                 K \in {S \in SUBSET BagKeys : Cardinality(S) <= MaxBagKeys} }

LookupKeys == TraitKeys \cup {"other"}

InitTraits ==
    /\ Idle
    /\ store = InitStore(<<>>)
    /\ fnIn \in [traits : TraitBags, key : LookupKeys]
    /\ fnOut = Unset

ApplyTraits ==
    /\ fnOut = Unset
    /\ fnOut' = Result(getStringFromTraits(fnIn.traits, fnIn.key))
    /\ UNCHANGED <<pc, op, req, arg, token, session, identity, lookup, user, err,
                   w, ctx, seen, hist, store, fnIn>>

SpecTraits == InitTraits /\ [][ApplyTraits]_vars

\* The bag is a map holding a string under the key.
HoldsString(traits, key) ==
    /\ traits.kind = "map"
    /\ key \in DOMAIN traits.m
    /\ traits.m[key].t = "string"

\* C18: getStringFromTraits gives the stored value when the bag is a map
\* holding a string under the key, and the empty string for every other bag
\* and key: a nil bag, a bag that is not a map, a missing key, a value that
\* is not a string.
C18_TraitsTotal ==
    fnOut # Unset =>
        /\ HoldsString(fnIn.traits, fnIn.key) =>
               fnOut.val = fnIn.traits.m[fnIn.key].v
        /\ ~HoldsString(fnIn.traits, fnIn.key) => fnOut.val = ""
        /\ fnOut.val # "" <=>
               /\ HoldsString(fnIn.traits, fnIn.key)
               /\ fnIn.traits.m[fnIn.key].v # ""

C18_Witness ==
    /\ fnOut # Unset
    /\ fnIn.key = "email"
    /\ fnIn.traits.kind = "map"
    /\ DOMAIN fnIn.traits.m = {"email", "other"}
    /\ fnIn.traits.m["email"] = NumVal("7")
    /\ fnIn.traits.m["other"] = StrVal("x")
    /\ fnOut.val = ""

\* C19: the fields and the EmailVerified flag of a user returned by GetUser
\* come from one and the same state of the remote identity: the record the
\* flag was computed from is the record the fields were projected from.
C19_OneRemoteState ==
    \A p \in Procs :
        (Returned(p) /\ op[p] = "GetUser" /\ ~LookupFailed(lookup[p])) =>
            lookup[p].identity = identity[p].identity

\* C20: when UpdateUser returns an error and no other call has changed the
\* identity, the identity's traits on the remote service are the ones it
\* had before the call.
C20_ErrorLeavesTraits ==
    \A p \in Procs :
        (op[p] = "UpdateUser" /\ pc[p] = "done" /\ err[p] # "" /\ OnlyWriter(p)) =>
            \E s0 \in InitStores :
                store[arg[p].userID].identity.traits =
                    s0[arg[p].userID].identity.traits

====
